---- MODULE Spec2Model ----
(***************************************************************************)
(* A model of the blog pipeline of 3kz_tech_blog:                          *)
(*   - scripts/build.js : the one-shot build that turns content/posts      *)
(*     into dist/blog-data.json;                                           *)
(*   - src/index.ts     : the serving layer (loadBlogData and the routes). *)
(*                                                                         *)
(* Conventions.  A JavaScript value that may be undefined is a sequence of *)
(* length at most one: << >> is undefined, <<v>> is the value v.  A string *)
(* that the code inspects character by character (the page query) is a     *)
(* sequence of one-character strings.  An ISO-8601 date string is the pair *)
(* <<year, month>>; a Date is the number of months since January 1970.     *)
(* The post fields title, updated, excerpt and content are carried by no   *)
(* decision of the code and are left out of the post record.               *)
(***************************************************************************)
EXTENDS Integers, Sequences, FiniteSets, TLC

\* ------------------------------------------------------------------------
\* Bounds of the model
\* ------------------------------------------------------------------------
MaxDocs == 2        \* documents in content/posts
MaxDate == 1        \* publication dates and the clock range over 0..MaxDate
MaxPosts == 2       \* posts (and slugs per tag) of a hand-made artifact file
MaxQueryLen == 2    \* characters of the ?page= query value
ExtraPosts == 2     \* a long artifact holds up to perPage + ExtraPosts posts

\* ------------------------------------------------------------------------
\* JavaScript values
\* ------------------------------------------------------------------------
Undefined == << >>

Some(v) == <<v>>

IsDefined(o) == Len(o) > 0

\* The property names every plain object inherits from Object.prototype
\* (the two the model's requests and tags draw from).
ObjectPrototypeKeys == {"constructor", "toString"}

\* obj[key] on a plain object: an own property, else an inherited one (a
\* function of Object.prototype, which is truthy and no array), else undefined.
ObjGet(obj, key) ==
    IF key \in DOMAIN obj THEN [kind |-> "own", value |-> obj[key]]
    ELSE IF key \in ObjectPrototypeKeys THEN [kind |-> "inherited", value |-> << >>]
    ELSE [kind |-> "undefined", value |-> << >>]

\* obj[key] = value on a plain object (creates or overwrites the own property).
ObjSet(obj, key, value) ==
    [k \in (DOMAIN obj) \cup {key} |-> IF k = key THEN value ELSE obj[k]]

EmptyObject == [k \in {} |-> << >>]

\* new Date(t).toISOString() and new Date(iso): dates are months since 1970-01.
ToISOString(t) == <<1970 + (t \div 12), 1 + (t % 12)>>

DateParse(iso) == (iso[1] - 1970) * 12 + (iso[2] - 1)

InvalidDate == 0 - 1

Dates == 0..MaxDate

\* ------------------------------------------------------------------------
\* The content directory and the files on disk
\* ------------------------------------------------------------------------
\* Markdown files below content/posts, as path components without ".md";
\* two of them share a file name at different nesting depths.
Paths == {<<"posts", "intro">>, <<"posts", "notes">>, <<"posts", "sub", "intro">>}

TagLists == {<<"Rust", "Go">>, <<"constructor">>}

\* What gray-matter returns as `data` for the documents of the model.
FrontMatter ==
    [slug : {Undefined, Some("intro")},
     date : {Undefined} \cup {Some(d) : d \in Dates},
     tags : {Undefined} \cup {Some(t) : t \in TagLists}]

NoData == [slug |-> Undefined, date |-> Undefined, tags |-> Undefined]

\* A document: one gray-matter parses, one whose front matter it rejects, and
\* one whose date metadata is no date.
Documents ==
    [kind : {"ok"}, data : FrontMatter]
        \cup {[kind |-> "badFrontMatter", data |-> NoData]}
        \cup {[kind |-> "ok", data |-> [NoData EXCEPT !.date = Some(InvalidDate)]]}

Missing == [kind |-> "missing"]
Unreadable == [kind |-> "unreadable"]
Malformed == [kind |-> "malformed"]

\* JSON.stringify(outputData, null, 2) as the content of a file.
JSONStringify(value) == [kind |-> "json", data |-> value]

VARIABLES
    contentDir,   \* content/posts: path -> document
    bpc,          \* build.js: "idle", "loop", "done" or "aborted"
    mdFiles,      \* build.js: mdFiles, the glob result
    idx,          \* build.js: how many files the for-of loop has taken
    postsData,    \* build.js: postsData
    tagMap,       \* build.js: tagMap
    now,          \* the clock read by new Date()
    disk,         \* the files blog-data.json: [known |-> file, stray |-> file]
    isNodeJS,     \* index.ts: isNodeJS
    nodeEnv,      \* index.ts: process.env.NODE_ENV
    cwd,          \* the working directory of the serving process
    fs,           \* index.ts: fs (undefined until imported)
    path,         \* index.ts: path (undefined until imported)
    dirname,      \* index.ts: __dirname
    ipc,          \* index.ts: position of importModules
    resp          \* the response to the request being answered, if any

buildVars == <<contentDir, bpc, mdFiles, idx, postsData, tagMap>>
serveVars == <<isNodeJS, nodeEnv, cwd, fs, path, dirname, ipc, resp>>
vars == <<buildVars, now, disk, serveVars>>

\* ------------------------------------------------------------------------
\* scripts/build.js
\* ------------------------------------------------------------------------
Truthy(o) == IsDefined(o) /\ o[1] # ""

\* path.basename(filePath, ".md")
Basename(filePath) == filePath[Len(filePath)]

\* matter(fileContent): the metadata, or a throw.
Matter(doc) ==
    IF doc.kind = "badFrontMatter" THEN [ok |-> FALSE, data |-> NoData]
    ELSE [ok |-> TRUE, data |-> doc.data]

\* data.slug || fileName
SlugOf(data, fileName) == IF Truthy(data.slug) THEN data.slug[1] ELSE fileName

\* data.date ? new Date(data.date).toISOString() : new Date().toISOString();
\* toISOString throws a RangeError on an invalid date.
DateOf(data, clock) ==
    IF IsDefined(data.date)
    THEN IF data.date[1] = InvalidDate
         THEN [ok |-> FALSE, iso |-> ToISOString(0)]
         ELSE [ok |-> TRUE, iso |-> ToISOString(data.date[1])]
    ELSE [ok |-> TRUE, iso |-> ToISOString(clock)]

\* Array.isArray(data.tags) ? data.tags : []
TagsOf(data) == IF IsDefined(data.tags) THEN data.tags[1] ELSE << >>

\* const postData = { slug, ..., date, ..., tags, ... }
PostData(filePath, data, clock) ==
    [slug |-> SlugOf(data, Basename(filePath)),
     date |-> DateOf(data, clock).iso,
     tags |-> TagsOf(data)]

\* A tag map update that assigns the entry instead of pushing onto it.
TagMapAssign(map, tag, slug) ==
    IF ObjGet(map, tag).kind = "inherited" THEN [ok |-> FALSE, map |-> map]
    ELSE [ok |-> TRUE, map |-> ObjSet(map, tag, <<slug>>)]

\* One turn of postData.tags.forEach: create the entry when tagMap[tag] is
\* falsy, then push the slug.  An inherited property is truthy and has no
\* push, so the call throws a TypeError.
TagMapPush(map, tag, slug) ==
    LET cur == ObjGet(map, tag) IN
    IF cur.kind = "inherited" THEN [ok |-> FALSE, map |-> map]
    ELSE LET m1 == IF cur.kind = "undefined" THEN ObjSet(map, tag, << >>) ELSE map
         IN [ok |-> TRUE, map |-> ObjSet(m1, tag, Append(m1[tag], slug))]

RECURSIVE TagMapUpdate(_, _, _)
TagMapUpdate(map, tags, slug) ==
    IF tags = << >> THEN [ok |-> TRUE, map |-> map]
    ELSE LET r == TagMapPush(map, Head(tags), slug) IN
         IF r.ok THEN TagMapUpdate(r.map, Tail(tags), slug) ELSE r

\* The comparator with its operands exchanged: oldest first.
CompareDatesAscending(a, b) == DateParse(a.date) - DateParse(b.date)

\* (a, b) => new Date(b.date) - new Date(a.date)
CompareDates(a, b) == DateParse(b.date) - DateParse(a.date)

\* Array.prototype.sort is stable: p goes behind every element that does not
\* compare greater than it.
RECURSIVE SortInsert(_, _)
SortInsert(sorted, p) ==
    IF sorted = << >> THEN <<p>>
    ELSE IF CompareDates(Head(sorted), p) <= 0
         THEN <<Head(sorted)>> \o SortInsert(Tail(sorted), p)
         ELSE <<p>> \o sorted

RECURSIVE SortPosts(_)
SortPosts(posts) ==
    IF posts = << >> THEN << >>
    ELSE SortInsert(SortPosts(SubSeq(posts, 1, Len(posts) - 1)), posts[Len(posts)])

OutputData(posts, map, clock) ==
    [posts |-> SortPosts(posts), tags |-> map, generatedAt |-> ToISOString(clock)]

\* glob delivers the files in an order of its own.
GlobOrders(dir) ==
    {s \in [1..Cardinality(DOMAIN dir) -> DOMAIN dir] :
        \A i, j \in DOMAIN s : i # j => s[i] # s[j]}

\* The author puts a document into content/posts before the build runs.
WriteDocument ==
    /\ bpc = "idle"
    /\ Cardinality(DOMAIN contentDir) < MaxDocs
    /\ \E p \in Paths \ DOMAIN contentDir : \E doc \in Documents :
           contentDir' = ObjSet(contentDir, p, doc)
    /\ UNCHANGED <<bpc, mdFiles, idx, postsData, tagMap, now, disk, serveVars>>

\* Lines 13-25: the glob and the empty collections.
StartBuild ==
    /\ bpc = "idle"
    /\ \E order \in GlobOrders(contentDir) : mdFiles' = order
    /\ bpc' = "loop"
    /\ idx' = 0
    /\ postsData' = << >>
    /\ tagMap' = EmptyObject
    /\ UNCHANGED <<contentDir, now, disk, serveVars>>

\* A loop that warns about a document it cannot process and goes on.
ProcessDocumentOrSkip ==
    /\ bpc = "loop"
    /\ idx < Len(mdFiles)
    /\ LET filePath == mdFiles[idx + 1]
           parsed == Matter(contentDir[filePath])
           postData == PostData(filePath, parsed.data, now)
           pushed == TagMapUpdate(tagMap, postData.tags, postData.slug)
       IN IF ~parsed.ok \/ ~DateOf(parsed.data, now).ok \/ ~pushed.ok
          THEN UNCHANGED <<postsData, tagMap>>
          ELSE /\ tagMap' = pushed.map
               /\ postsData' = Append(postsData, postData)
    /\ idx' = idx + 1
    /\ UNCHANGED <<contentDir, bpc, mdFiles, now, disk, serveVars>>

\* Lines 28-64: one turn of the loop over mdFiles.
ProcessDocument ==
    /\ bpc = "loop"
    /\ idx < Len(mdFiles)
    /\ LET filePath == mdFiles[idx + 1]
           parsed == Matter(contentDir[filePath])
           postData == PostData(filePath, parsed.data, now)
           pushed == TagMapUpdate(tagMap, postData.tags, postData.slug)
       IN IF ~parsed.ok \/ ~DateOf(parsed.data, now).ok
          THEN /\ bpc' = "aborted"
               /\ UNCHANGED <<idx, postsData, tagMap>>
          ELSE IF ~pushed.ok
          THEN /\ bpc' = "aborted"
               /\ tagMap' = pushed.map
               /\ UNCHANGED <<idx, postsData>>
          ELSE /\ tagMap' = pushed.map
               /\ postsData' = Append(postsData, postData)
               /\ idx' = idx + 1
               /\ UNCHANGED bpc
    /\ UNCHANGED <<contentDir, mdFiles, now, disk, serveVars>>

\* Lines 66-81: sort, assemble and write dist/blog-data.json.
FinishBuild ==
    /\ bpc = "loop"
    /\ idx = Len(mdFiles)
    /\ postsData' = SortPosts(postsData)
    /\ disk' = [disk EXCEPT !.known = JSONStringify(OutputData(postsData, tagMap, now))]
    /\ bpc' = "done"
    /\ UNCHANGED <<contentDir, mdFiles, idx, tagMap, now, serveVars>>

\* Time passes between two statements of the build.
Tick ==
    /\ bpc = "loop"
    /\ now < MaxDate
    /\ now' = now + 1
    /\ UNCHANGED <<buildVars, disk, serveVars>>

\* ------------------------------------------------------------------------
\* src/index.ts: module state and loadBlogData
\* ------------------------------------------------------------------------
ProjectRoot == <<"proj">>

\* The directory of index.ts, which fileURLToPath(import.meta.url) yields.
SrcDir == <<"proj", "src">>

\* path.join(__dirname, "../dist") / "blog-data.json" as build.js computes it.
KnownPath == <<"proj", "dist", "blog-data.json">>

\* existsSync / readFileSync see the file of the build at its output path and
\* possibly another blog-data.json one level above the project.
FsAt(filePath) ==
    IF filePath = KnownPath THEN disk.known
    ELSE IF filePath = <<"dist", "blog-data.json">> THEN disk.stray
    ELSE Missing

\* path.resolve(dir) without the "..".
PathResolveSelf(dir) == IF dir = <<".">> THEN cwd ELSE dir

\* path.resolve(dir, ".."): a relative dir is taken from the working directory.
PathResolveParent(dir) ==
    LET abs == IF dir = <<".">> THEN cwd ELSE dir
    IN SubSeq(abs, 1, Len(abs) - 1)

\* path.join(projectRoot, "dist", "blog-data.json")
PathJoinDist(projectRoot) == projectRoot \o <<"dist", "blog-data.json">>

\* The module is evaluated at time 0: that is new Date() in SAMPLE_BLOG_DATA.
SAMPLE_BLOG_DATA ==
    [posts |-> <<[slug |-> "hello-world", date |-> ToISOString(0), tags |-> <<"Sample">>]>>,
     tags |-> [t \in {"Sample"} |-> <<"hello-world">>],
     generatedAt |-> ToISOString(0)]

\* The outcome of a block of code: a value returned or an error thrown.
Return(v) == [kind |-> "return", value |-> v]

Throw == [kind |-> "throw"]

\* A catch that lets the error through.
CatchRethrow(r, v) == r

\* try { r } catch (e) { return v }
CatchReturn(r, v) == IF r.kind = "throw" THEN Return(v) ELSE r

\* JSON.parse(fileContent)
JSONParse(file) == IF file.kind = "json" THEN Return(file.data) ELSE Throw

\* fs.readFileSync(filePath, "utf-8")
ReadFileSync(filePath) ==
    IF FsAt(filePath).kind \in {"missing", "unreadable"} THEN Throw
    ELSE Return(FsAt(filePath))

\* Lines 106-122: the body of the inner try once fs and path are there.
ReadArtifact ==
    LET filePath == PathJoinDist(PathResolveParent(dirname)) IN
    IF FsAt(filePath).kind = "missing" THEN Return(SAMPLE_BLOG_DATA)
    ELSE LET fileContent == ReadFileSync(filePath) IN
         IF fileContent.kind = "throw" THEN Throw ELSE JSONParse(fileContent.value)

\* Lines 97-126: the inner try/catch of the development branch.
LoadFromDisk ==
    CatchReturn(IF ~IsDefined(fs) \/ ~IsDefined(path)
                THEN Return(SAMPLE_BLOG_DATA)
                ELSE ReadArtifact,
                SAMPLE_BLOG_DATA)

\* Lines 93-167.
loadBlogData ==
    CatchReturn(IF isNodeJS /\ nodeEnv = "development" /\ IsDefined(fs)
                THEN LoadFromDisk
                ELSE Return(SAMPLE_BLOG_DATA),
                SAMPLE_BLOG_DATA)

\* Lines 20-29: importModules resumes after one of its awaits.  A handler runs
\* to its response without yielding to importModules, so the import steps are
\* taken between two requests.
ImportFs ==
    /\ ipc = "awaitFs"
    /\ resp = Undefined
    /\ fs' = Some("fs")
    /\ ipc' = "awaitPath"
    /\ UNCHANGED <<buildVars, now, disk, isNodeJS, nodeEnv, cwd, path, dirname, resp>>

ImportPath ==
    /\ ipc = "awaitPath"
    /\ resp = Undefined
    /\ path' = Some("path")
    /\ ipc' = "awaitUrl"
    /\ UNCHANGED <<buildVars, now, disk, isNodeJS, nodeEnv, cwd, fs, dirname, resp>>

ImportUrl ==
    /\ ipc = "awaitUrl"
    /\ resp = Undefined
    /\ dirname' = SrcDir
    /\ ipc' = "done"
    /\ UNCHANGED <<buildVars, now, disk, isNodeJS, nodeEnv, cwd, fs, path, resp>>

\* Lines 26-28: an import rejects and the catch only logs.
ImportFails ==
    /\ ipc \in {"awaitFs", "awaitPath", "awaitUrl"}
    /\ resp = Undefined
    /\ ipc' = "failed"
    /\ UNCHANGED <<buildVars, now, disk, isNodeJS, nodeEnv, cwd, fs, path, dirname, resp>>

\* ------------------------------------------------------------------------
\* src/index.ts: the routes
\* ------------------------------------------------------------------------
\* A JavaScript number: an integer or NaN.
Num(n) == [nan |-> FALSE, n |-> n]

NaN == [nan |-> TRUE, n |-> 0]

NumAdd(a, k) == IF a.nan THEN NaN ELSE Num(a.n + k)

NumMul(a, k) == IF a.nan THEN NaN ELSE Num(a.n * k)

\* a > k and a < k are false for NaN.
NumGreater(a, k) == ~a.nan /\ a.n > k

NumLess(a, k) == ~a.nan /\ a.n < k

DecimalDigits == {"0", "1", "2", "3", "4", "5", "6", "7", "8", "9"}

DigitValue(c) ==
    CASE c = "0" -> 0 [] c = "1" -> 1 [] c = "2" -> 2 [] c = "3" -> 3 [] c = "4" -> 4
      [] c = "5" -> 5 [] c = "6" -> 6 [] c = "7" -> 7 [] c = "8" -> 8 [] c = "9" -> 9

RECURSIVE SkipWhiteSpace(_)
SkipWhiteSpace(str) ==
    IF str # << >> /\ Head(str) = " " THEN SkipWhiteSpace(Tail(str)) ELSE str

RECURSIVE ParseDigits(_, _)
ParseDigits(str, acc) ==
    IF str = << >> \/ Head(str) \notin DecimalDigits THEN acc
    ELSE ParseDigits(Tail(str), acc * 10 + DigitValue(Head(str)))

\* parseInt(str) without a radix, for strings that hold no "0x" prefix:
\* leading white space, a sign, then the longest run of decimal digits;
\* NaN when there is no digit.
ParseInt(str) ==
    LET t == SkipWhiteSpace(str)
        signed == t # << >> /\ Head(t) \in {"+", "-"}
        u == IF signed THEN Tail(t) ELSE t
    IN IF u = << >> \/ Head(u) \notin DecimalDigits THEN NaN
       ELSE IF signed /\ Head(t) = "-" THEN Num(0 - ParseDigits(u, 0))
       ELSE Num(ParseDigits(u, 0))

Min(a, b) == IF a < b THEN a ELSE b

Max(a, b) == IF a > b THEN a ELSE b

\* ToIntegerOrInfinity of an index argument: NaN is 0.
ToInteger(a) == IF a.nan THEN 0 ELSE a.n

\* A relative index of Array.prototype.slice: negative counts from the end.
RelativeIndex(i, len) == IF i < 0 THEN Max(len + i, 0) ELSE Min(i, len)

\* A slice that takes the element at end as well.
SliceInclusive(posts, start, end) ==
    LET k == RelativeIndex(ToInteger(start), Len(posts))
        final == RelativeIndex(ToInteger(end), Len(posts))
    IN SubSeq(posts, k + 1, Min(final + 1, Len(posts)))

\* posts.slice(start, end)
Slice(posts, start, end) ==
    LET k == RelativeIndex(ToInteger(start), Len(posts))
        final == RelativeIndex(ToInteger(end), Len(posts))
    IN SubSeq(posts, k + 1, final)

\* Math.floor(a / b)
FloorDiv(a, b) == a \div b

\* Math.ceil(a / b) for a >= 0 and b > 0
CeilDiv(a, b) == (a + b - 1) \div b

perPage == 10

\* c.req.query("page") || "1"
PageQueryOrDefault(query) ==
    IF IsDefined(query) /\ query[1] # << >> THEN query[1] ELSE <<"1">>

\* Lines 213-219: the pagination of the listing route, for a page size n.
List(posts, query, n) ==
    LET page == ParseInt(PageQueryOrDefault(query))
        start == NumMul(NumAdd(page, 0 - 1), n)
        end == NumAdd(start, n)
    IN [page |-> page,
        paginatedPosts |-> Slice(posts, start, end),
        totalPages |-> CeilDiv(Len(posts), n)]

\* Lines 290 and 292: `/?page=${n}`, the decimal digits of a page number
\* n >= 0 as the value of the page parameter of a link.
RECURSIVE PageLink(_)
PageLink(n) ==
    LET digit == CHOOSE c \in DecimalDigits : DigitValue(c) = n % 10 IN
    IF n < 10 THEN <<digit>> ELSE Append(PageLink(n \div 10), digit)

\* An error page sent without the 500 argument of c.html.
ErrorPageWithoutStatus(route) == [route |-> route, status |-> 200]

InternalError(route) == [route |-> route, status |-> 500]

\* Lines 203-321: app.get("/").
ListingResponse(query) ==
    LET blogData == loadBlogData IN
    IF blogData.kind = "throw" THEN InternalError("/")
    ELSE LET view == List(blogData.value.posts, query, perPage) IN
         [route |-> "/", status |-> 200,
          page |-> view.page,
          posts |-> view.paginatedPosts,
          totalPages |-> view.totalPages,
          prev |-> view.totalPages > 1 /\ NumGreater(view.page, 1),
          next |-> view.totalPages > 1 /\ NumLess(view.page, view.totalPages)]

\* A find that takes the first post whatever its slug.
FindFirst(posts, slug) == IF posts = << >> THEN Undefined ELSE Some(posts[1])

\* posts.find((p) => p.slug === slug): the first match, or undefined.
FindBySlug(posts, slug) ==
    LET hits == {i \in 1..Len(posts) : posts[i].slug = slug} IN
    IF hits = {} THEN Undefined
    ELSE Some(posts[CHOOSE i \in hits : \A j \in hits : i <= j])

\* Lines 324-443: app.get("/:slug").
PostResponse(slug) ==
    LET blogData == loadBlogData IN
    IF blogData.kind = "throw" THEN InternalError("/:slug")
    ELSE LET post == FindBySlug(blogData.value.posts, slug) IN
         IF ~IsDefined(post)
         THEN [route |-> "/:slug", status |-> 404]
         ELSE [route |-> "/:slug", status |-> 200, post |-> post[1]]

\* A lookup that gives up at the first slug without a post.
RECURSIVE MapFindStopAtMiss(_, _)
MapFindStopAtMiss(slugs, posts) ==
    IF slugs = << >> \/ ~IsDefined(FindBySlug(posts, Head(slugs))) THEN << >>
    ELSE FindBySlug(posts, Head(slugs)) \o MapFindStopAtMiss(Tail(slugs), posts)

\* taggedSlugs.map(find).filter(Boolean)
RECURSIVE MapFindFilter(_, _)
MapFindFilter(slugs, posts) ==
    IF slugs = << >> THEN << >>
    ELSE FindBySlug(posts, Head(slugs)) \o MapFindFilter(Tail(slugs), posts)

\* Lines 454-460: blogData.tags[tag] || [], then the posts of those slugs.
\* An inherited property is a function: it is truthy and has no map.
TaggedPosts(blogData, tag) ==
    LET found == ObjGet(blogData.tags, tag) IN
    IF found.kind = "inherited" THEN Throw
    ELSE Return(MapFindFilter(found.value, blogData.posts))

\* Lines 446-541: app.get("/tag/:tag").
TagResponse(tag) ==
    LET blogData == loadBlogData IN
    IF blogData.kind = "throw" THEN InternalError("/tag/:tag")
    ELSE LET taggedPosts == TaggedPosts(blogData.value, tag) IN
         IF taggedPosts.kind = "throw" THEN InternalError("/tag/:tag")
         ELSE [route |-> "/tag/:tag", status |-> 200, tag |-> tag,
               posts |-> taggedPosts.value]

\* A JSON route that has only its last statement, c.json(SAMPLE_BLOG_DATA).
JsonSampleOnly ==
    [route |-> "/blog-data.json", status |-> 200, json |-> SAMPLE_BLOG_DATA]

\* Lines 170-200: app.get("/blog-data.json").
JsonResponse ==
    LET inner ==
            IF isNodeJS /\ nodeEnv = "development" /\ IsDefined(fs)
            THEN CatchReturn(IF ~IsDefined(path) THEN Throw ELSE ReadArtifact,
                             SAMPLE_BLOG_DATA)
            ELSE Return(SAMPLE_BLOG_DATA)
        outer == CatchReturn(inner, SAMPLE_BLOG_DATA)
    IN IF outer.kind = "throw" THEN InternalError("/blog-data.json")
       ELSE [route |-> "/blog-data.json", status |-> 200, json |-> outer.value]

\* ------------------------------------------------------------------------
\* The artifact files and the requests of the model
\* ------------------------------------------------------------------------
SeqsUpTo(S, n) == UNION {[1..k -> S] : k \in 0..n}

Slugs == {"intro", "notes"}

\* Posts of a hand-made artifact file, one tagged and one not; the tag index
\* of such a file need not agree with the posts.
FilePosts ==
    {[slug |-> "intro", date |-> ToISOString(0), tags |-> <<"Go">>],
     [slug |-> "notes", date |-> ToISOString(0), tags |-> << >>]}

FileTagIndexes ==
    {EmptyObject} \cup {[t \in {"Go"} |-> slugs] : slugs \in SeqsUpTo(Slugs, MaxPosts)}

HandMadeArtifacts ==
    [posts : SeqsUpTo(FilePosts, MaxPosts),
     tags : FileTagIndexes,
     generatedAt : {ToISOString(0)}]

\* An artifact of n untagged posts with the slugs "1" .. "n".
LongArtifact(n) ==
    [posts |-> [i \in 1..n |-> [slug |-> ToString(i), date |-> ToISOString(0), tags |-> << >>]],
     tags |-> EmptyObject,
     generatedAt |-> ToISOString(0)]

LongArtifacts == {LongArtifact(n) : n \in (perPage - 1)..(perPage + ExtraPosts)}

Artifacts == HandMadeArtifacts \cup LongArtifacts

FileStates == {Missing, Unreadable, Malformed} \cup {JSONStringify(a) : a \in Artifacts}

\* What an earlier build left at the output path.
OldArtifact ==
    [posts |-> <<[slug |-> "notes", date |-> ToISOString(0), tags |-> << >>]>>,
     tags |-> EmptyObject,
     generatedAt |-> ToISOString(0)]

StrayArtifact ==
    [posts |-> <<[slug |-> "stray", date |-> ToISOString(0), tags |-> << >>]>>,
     tags |-> EmptyObject,
     generatedAt |-> ToISOString(0)]

\* Page 1 is asked for by leaving the parameter out.
QueryChars == {"2", "a", "-"}

PageQueries == {Undefined} \cup {Some(q) : q \in SeqsUpTo(QueryChars, MaxQueryLen)}

RequestedSlugs == Slugs \cup {"hello-world", "ghost"} \cup {ToString(perPage + 1)}

RequestedTags == {"Go", "Sample", "unused", "constructor"}

\* ------------------------------------------------------------------------
\* Requests
\* ------------------------------------------------------------------------
Answer(route, arg, res) ==
    /\ resp = Undefined
    /\ resp' = Some([req |-> [route |-> route, arg |-> arg], res |-> res])
    /\ UNCHANGED <<buildVars, now, disk, isNodeJS, nodeEnv, cwd, fs, path, dirname, ipc>>

GetListing == \E query \in PageQueries : Answer("/", query, ListingResponse(query))

GetPost == \E slug \in RequestedSlugs : Answer("/:slug", Some(slug), PostResponse(slug))

GetTag == \E tag \in RequestedTags : Answer("/tag/:tag", Some(tag), TagResponse(tag))

GetJson == Answer("/blog-data.json", Undefined, JsonResponse)

\* The response leaves the process; the next request can be answered.
SendResponse ==
    /\ resp # Undefined
    /\ resp' = Undefined
    /\ UNCHANGED <<buildVars, now, disk, isNodeJS, nodeEnv, cwd, fs, path, dirname, ipc>>

\* ------------------------------------------------------------------------
\* Specifications
\* ------------------------------------------------------------------------
\* The state after index.ts is evaluated (lines 9-35), with nothing built yet.
Init ==
    /\ contentDir = EmptyObject
    /\ bpc = "idle"
    /\ mdFiles = << >>
    /\ idx = 0
    /\ postsData = << >>
    /\ tagMap = EmptyObject
    /\ now = 0
    /\ disk \in [known : FileStates, stray : {Missing, JSONStringify(StrayArtifact)}]
    /\ isNodeJS \in BOOLEAN
    /\ nodeEnv \in {"development", "production"}
    /\ cwd \in {ProjectRoot, SrcDir}
    /\ fs = Undefined
    /\ path = Undefined
    /\ dirname = <<".">>
    /\ ipc = IF isNodeJS /\ nodeEnv = "development" THEN "awaitFs" ELSE "none"
    /\ resp = Undefined

NextBuild == WriteDocument \/ StartBuild \/ ProcessDocument \/ FinishBuild \/ Tick

NextServe ==
    \/ ImportFs \/ ImportPath \/ ImportUrl \/ ImportFails
    \/ GetListing \/ GetPost \/ GetTag \/ GetJson \/ SendResponse

Next == NextBuild \/ NextServe

Spec == Init /\ [][Next]_vars

\* The build alone, run where nothing is served: the output path holds no
\* file or the artifact of an earlier build.
InitBuild ==
    /\ Init
    /\ disk.known \in {Missing, JSONStringify(OldArtifact)}
    /\ disk.stray = Missing
    /\ ~isNodeJS
    /\ nodeEnv = "production"
    /\ cwd = ProjectRoot

SpecBuild == InitBuild /\ [][NextBuild]_vars

\* The serving process alone, over whatever file the output path holds.
SpecServe == Init /\ [][NextServe]_vars

\* ------------------------------------------------------------------------
\* Properties of the serving layer
\* ------------------------------------------------------------------------
Development == isNodeJS /\ nodeEnv = "development"

\* The file at the path loadBlogData computes (filePath, line 108).
LoaderFile == FsAt(PathJoinDist(PathResolveParent(dirname)))

\* loadBlogData takes the file-reading branch and gets past its guard.
ReadsDisk == Development /\ IsDefined(fs) /\ IsDefined(path)

Answered(route) == resp # Undefined /\ resp[1].req.route = route

\* A handler that calls loadBlogData has run; its response is not yet sent and
\* the state is the one the call saw.
LoadCalled == resp # Undefined /\ resp[1].req.route # "/blog-data.json"

\* What loadBlogData handed to the handler that produced resp.
LoadedData == loadBlogData.value

C2_LoadReadsKnownFileAtAnyTime ==
    (LoadCalled /\ Development /\ disk.known.kind = "json")
        => loadBlogData = Return(disk.known.data)

\* C2 as amended: the same for every call made after importModules has
\* completed without an error.
C2_LoadReadsKnownFileAfterImport ==
    (LoadCalled /\ Development /\ ipc = "done" /\ disk.known.kind = "json")
        => loadBlogData = Return(disk.known.data)

\* After the import a listing shows the posts of the built file.
C2_Witness ==
    /\ Development
    /\ ipc = "done"
    /\ disk.known.kind = "json"
    /\ disk.known.data.posts # << >>
    /\ disk.known.data # SAMPLE_BLOG_DATA
    /\ Answered("/")
    /\ resp[1].req.arg = Undefined
    /\ resp[1].res.posts = disk.known.data.posts

\* A page query value that is a number: an optional sign and decimal digits.
IsNumber(str) ==
    LET u == IF str # << >> /\ Head(str) \in {"+", "-"} THEN Tail(str) ELSE str
    IN u # << >> /\ \A i \in 1..Len(u) : u[i] \in DecimalDigits

\* C3: for every page query value that is not a number the listing route
\* shows page 1, the first perPage posts, as it does without a page parameter.
C3_NonNumericPageShowsFirstPage ==
    (Answered("/") /\ IsDefined(resp[1].req.arg) /\ ~IsNumber(resp[1].req.arg[1]))
        => /\ resp[1].res.page = Num(1)
           /\ resp[1].res.posts = SubSeq(LoadedData.posts, 1, Min(perPage, Len(LoadedData.posts)))
           /\ resp[1].res = ListingResponse(Undefined)

\* k = ceil(a / n), stated without division.
IsCeiling(k, a, n) == k * n >= a /\ (k - 1) * n < a

\* C4: a listing whose start (page-1)*perPage is at or beyond the number of
\* posts shows no post, and totalPages is ceil(totalPosts / n) for every page
\* size n > 0, perPage included.
C4_PageBeyondEndIsEmpty ==
    Answered("/") =>
        LET res == resp[1].res
            total == Len(LoadedData.posts)
        IN /\ res.status = 200
           /\ (~res.page.nan /\ (res.page.n - 1) * perPage >= total) => res.posts = << >>
           /\ IsCeiling(res.totalPages, total, perPage)
           /\ \A n \in 1..(perPage + ExtraPosts) :
                  IsCeiling(CeilDiv(total, n), total, n)

\* Page 2 of a file of at most perPage posts was asked for and came out empty.
C4_Witness ==
    /\ Answered("/")
    /\ resp[1].res.page = Num(2)
    /\ Len(LoadedData.posts) = perPage
    /\ resp[1].res.posts = << >>
    /\ resp[1].res.totalPages = 1

\* C6: the post route never fails: it answers 404 when no post has the slug
\* asked for and 200 with a post of that slug otherwise, which is the one
\* post of that slug when the slug is unique.
C6_PostRouteFindsBySlug ==
    Answered("/:slug") =>
        LET res == resp[1].res
            posts == LoadedData.posts
            hits == {i \in 1..Len(posts) : posts[i].slug = resp[1].req.arg[1]}
        IN /\ res.status \in {200, 404}
           /\ (hits = {}) <=> (res.status = 404)
           /\ hits # {} => /\ res.post.slug = resp[1].req.arg[1]
                           /\ \E i \in hits : res.post = posts[i]
           /\ \A i \in hits : hits = {i} => res.post = posts[i]

\* The second post of a two-post file was asked for and served.
C6_Witness ==
    /\ Answered("/:slug")
    /\ ReadsDisk
    /\ Len(LoadedData.posts) = 2
    /\ LoadedData.posts[1].slug # LoadedData.posts[2].slug
    /\ resp[1].req.arg = Some(LoadedData.posts[2].slug)
    /\ resp[1].res.status = 200
    /\ resp[1].res.post = LoadedData.posts[2]

\* C7: for every tag that is no key of the tag index the tag route answers
\* with a normal page of zero posts.
C7_AbsentTagShowsNoPosts ==
    (Answered("/tag/:tag") /\ resp[1].req.arg[1] \notin DOMAIN LoadedData.tags)
        => /\ resp[1].res.status = 200
           /\ resp[1].res.posts = << >>

\* ------------------------------------------------------------------------
\* Properties of the build
\* ------------------------------------------------------------------------
\* The artifact the finished build wrote.
Written == disk.known.data

\* C5: in the artifact of a finished build no two posts share a slug.
C5_SlugsUnique ==
    bpc = "done" =>
        \A i, j \in 1..Len(Written.posts) :
            i # j => Written.posts[i].slug # Written.posts[j].slug

\* C8: after the build every post's slug is in the tag index entry of each
\* of the post's tags.
C8_TagIndexHoldsEveryTaggedPost ==
    bpc = "done" =>
        \A i \in 1..Len(Written.posts) :
            \A k \in 1..Len(Written.posts[i].tags) :
                LET tag == Written.posts[i].tags[k] IN
                /\ tag \in DOMAIN Written.tags
                /\ \E m \in 1..Len(Written.tags[tag]) :
                       Written.tags[tag][m] = Written.posts[i].slug

\* Two posts with different slugs and the same two tags were built.
C8_Witness ==
    /\ bpc = "done"
    /\ Len(Written.posts) = 2
    /\ Written.posts[1].slug # Written.posts[2].slug
    /\ Written.posts[1].tags = <<"Rust", "Go">>
    /\ Written.posts[2].tags = <<"Rust", "Go">>
    /\ Len(Written.tags["Go"]) = 2

\* C9: the posts of the written artifact are in non-increasing date order.
C9_PostsSortedByDateDescending ==
    bpc = "done" =>
        \A i \in 1..(Len(Written.posts) - 1) :
            DateParse(Written.posts[i].date) >= DateParse(Written.posts[i + 1].date)

\* The date of the document a file path holds, as the build dates it.
DocDate(filePath) == DateOf(contentDir[filePath].data, now).iso

\* The glob delivered the older document first and the build put it last.
C9_Witness ==
    /\ bpc = "done"
    /\ Len(mdFiles) = 2
    /\ IsDefined(contentDir[mdFiles[1]].data.date)
    /\ IsDefined(contentDir[mdFiles[2]].data.date)
    /\ DateParse(DocDate(mdFiles[1])) < DateParse(DocDate(mdFiles[2]))
    /\ Written.posts[1].date = DocDate(mdFiles[2])
    /\ Written.posts[2].date = DocDate(mdFiles[1])

\* The slug and the tags the build gives the document at a file path.
DocKey(filePath) ==
    <<SlugOf(contentDir[filePath].data, Basename(filePath)), TagsOf(contentDir[filePath].data)>>

PostKey(post) == <<post.slug, post.tags>>

\* A valid content directory: every document has front matter that parses
\* and a date, if any, that is one.
ValidDirectory ==
    \A p \in DOMAIN contentDir :
        /\ contentDir[p].kind = "ok"
        /\ contentDir[p].data.date # Some(InvalidDate)

\* C10: for every valid content directory the build ends with an artifact
\* written that holds exactly one post per document found: as many posts as
\* documents, and each slug-and-tags combination as often among the posts as
\* among the documents.
C10_OnePostPerDocument ==
    (bpc \in {"done", "aborted"} /\ ValidDirectory) =>
        /\ bpc = "done"
        /\ Len(Written.posts) = Cardinality(DOMAIN contentDir)
        /\ \A p \in DOMAIN contentDir :
               Cardinality({i \in 1..Len(Written.posts) : PostKey(Written.posts[i]) = DocKey(p)})
                   = Cardinality({q \in DOMAIN contentDir : DocKey(q) = DocKey(p)})

\* ------------------------------------------------------------------------
\* Properties of the responses
\* ------------------------------------------------------------------------
\* Computing the response to the request in resp throws: loadBlogData throws,
\* or the tag asked for is no key of the tag index but a property every
\* object inherits, so that taggedSlugs is no array.
ComputingThrows ==
    \/ loadBlogData.kind = "throw"
    \/ /\ Answered("/tag/:tag")
       /\ resp[1].req.arg[1] \notin DOMAIN LoadedData.tags
       /\ resp[1].req.arg[1] \in ObjectPrototypeKeys

\* C11: the listing, post and tag routes always answer, with 500 exactly
\* when computing the response throws, else with 404 exactly when the post
\* route finds no post of the slug, else with 200.
C11_StatusCodes ==
    LoadCalled =>
        LET res == resp[1].res
            noPost == /\ Answered("/:slug")
                      /\ \A i \in 1..Len(LoadedData.posts) :
                             LoadedData.posts[i].slug # resp[1].req.arg[1]
        IN /\ res.route = resp[1].req.route
           /\ res.status \in {200, 404, 500}
           /\ (res.status = 500) <=> ComputingThrows
           /\ (res.status = 404) <=> (~ComputingThrows /\ noPost)

\* The tag route caught a TypeError and answered the error page.
C11_Witness ==
    /\ Answered("/tag/:tag")
    /\ ComputingThrows
    /\ resp[1].res.status = 500

\* ------------------------------------------------------------------------
\* The build that fails
\* ------------------------------------------------------------------------
\* The loop has not gone past a document whose front matter does not parse,
\* and a build that aborted stands at the document it failed on, with one
\* post for each document before it.
StopsAtUnparseable ==
    /\ \A k \in 1..idx : contentDir[mdFiles[k]].kind = "ok"
    /\ bpc = "done" => idx = Len(mdFiles)
    /\ bpc = "aborted" => idx < Len(mdFiles) /\ Len(postsData) = idx

\* C12: a document whose parsing throws stops the build at that document,
\* and only the last step of a build that got through every document writes
\* the output path: an aborted build leaves the file there as it was.
C12_AbortWritesNothing ==
    /\ []StopsAtUnparseable
    /\ [][(bpc' # "done" => disk' = disk) /\ (bpc = "aborted" => bpc' = "aborted")]_vars

\* The second of two documents did not parse: the build aborted with the
\* first post collected and the artifact of the earlier build untouched.
C12_Witness ==
    /\ bpc = "aborted"
    /\ Len(mdFiles) = 2
    /\ idx = 1
    /\ contentDir[mdFiles[2]].kind = "badFrontMatter"
    /\ Len(postsData) = 1
    /\ disk.known = JSONStringify(OldArtifact)

\* ------------------------------------------------------------------------
\* The JSON route
\* ------------------------------------------------------------------------
\* C13: whatever the environment, the progress of importModules and the file
\* at the output path, GET /blog-data.json answers 200 with the artifact that
\* loadBlogData returns in the same state.
C13_JsonRouteServesLoadedData ==
    Answered("/blog-data.json") =>
        /\ loadBlogData.kind = "return"
        /\ resp[1].res.status = 200
        /\ resp[1].res.json = loadBlogData.value

\* The JSON route served a file of the disk that is not the sample.
C13_Witness ==
    /\ Answered("/blog-data.json")
    /\ ReadsDisk
    /\ LoaderFile.kind = "json"
    /\ LoaderFile.data # SAMPLE_BLOG_DATA
    /\ resp[1].res.json = LoaderFile.data

\* ------------------------------------------------------------------------
\* The tag route
\* ------------------------------------------------------------------------
\* C14: for a tag that is a key of the tag index, the tag route answers 200
\* with one post for each slug of tags[t] that some post has, in the order of
\* tags[t]: the first post of that slug.  Slugs that no post has are left
\* out, also when the index and the posts disagree.
C14_TagRouteResolvesSlugs ==
    (Answered("/tag/:tag") /\ resp[1].req.arg[1] \in DOMAIN LoadedData.tags) =>
        LET res == resp[1].res
            posts == LoadedData.posts
            Resolves(s) == \E j \in 1..Len(posts) : posts[j].slug = s
            kept == SelectSeq(LoadedData.tags[resp[1].req.arg[1]], Resolves)
        IN /\ res.status = 200
           /\ Len(res.posts) = Len(kept)
           /\ \A i \in 1..Len(kept) :
                  \E j \in 1..Len(posts) :
                      /\ res.posts[i] = posts[j]
                      /\ posts[j].slug = kept[i]
                      /\ \A k \in 1..(j - 1) : posts[k].slug # kept[i]

\* The index lists "notes" and then "intro" under a tag, no post has the slug
\* "notes", and the tag page shows the one post "intro".
C14_Witness ==
    /\ Answered("/tag/:tag")
    /\ resp[1].req.arg[1] \in DOMAIN LoadedData.tags
    /\ LoadedData.tags[resp[1].req.arg[1]] = <<"notes", "intro">>
    /\ \A j \in 1..Len(LoadedData.posts) : LoadedData.posts[j].slug # "notes"
    /\ resp[1].res.status = 200
    /\ Len(resp[1].res.posts) = 1
    /\ resp[1].res.posts[1].slug = "intro"

\* ------------------------------------------------------------------------
\* The pages of the listing
\* ------------------------------------------------------------------------
\* The posts that the listing shows when a link to page p is followed.
PageSlice(posts, p) == List(posts, Some(PageLink(p)), perPage).paginatedPosts

\* The slices of the pages 1 .. p, one after the other.
RECURSIVE PagesUpTo(_, _)
PagesUpTo(posts, p) ==
    IF p = 0 THEN << >> ELSE PagesUpTo(posts, p - 1) \o PageSlice(posts, p)

\* C15: the slices of the pages 1 .. totalPages of the loaded artifact, put
\* one after the other, are its posts; every position of the posts lies on
\* exactly one page; every page before the last has perPage posts; and a
\* listing answered for a page in 1 .. totalPages shows that page's slice,
\* with a Previous link only to page - 1 >= 1 and a Next link only to
\* page + 1 <= totalPages, each of which the route reads back as that page.
C15_PagesPartitionPosts ==
    (Answered("/") /\ resp[1].res.status = 200) =>
        LET res == resp[1].res
            posts == LoadedData.posts
            total == CeilDiv(Len(posts), perPage)
            OnPage(i, p) ==
                \E k \in 1..Len(PageSlice(posts, p)) :
                    /\ Len(PagesUpTo(posts, p - 1)) + k = i
                    /\ PageSlice(posts, p)[k] = posts[i]
            Follows(n) == List(posts, Some(PageLink(n)), perPage).page = Num(n)
        IN /\ res.totalPages = total
           /\ PagesUpTo(posts, total) = posts
           /\ \A i \in 1..Len(posts) : Cardinality({p \in 1..total : OnPage(i, p)}) = 1
           /\ \A p \in 1..(total - 1) : Len(PageSlice(posts, p)) = perPage
           /\ (~res.page.nan /\ res.page.n \in 1..total) =>
                  /\ res.posts = PageSlice(posts, res.page.n)
                  /\ res.prev => (res.page.n - 1 \in 1..total /\ Follows(res.page.n - 1))
                  /\ res.next => (res.page.n + 1 \in 1..total /\ Follows(res.page.n + 1))

\* The second and last page of an artifact of more than perPage posts: it
\* shows the posts after the first perPage and links back to page 1 only.
C15_Witness ==
    /\ Answered("/")
    /\ resp[1].req.arg = Some(<<"2">>)
    /\ Len(LoadedData.posts) > perPage + 1
    /\ resp[1].res.page = Num(2)
    /\ resp[1].res.totalPages = 2
    /\ resp[1].res.posts = SubSeq(LoadedData.posts, perPage + 1, Len(LoadedData.posts))
    /\ resp[1].res.prev
    /\ ~resp[1].res.next

====
